---- MODULE Spec2Model ----
(***************************************************************************)
(* CO2 charts (src/src/main.py): the CSV readers of class CO2Charts and    *)
(* the four series derivations plotted by main().                          *)
(*                                                                         *)
(* Text is a sequence of one-character strings.  A CSV row is the sequence *)
(* of its fields; csv.DictReader maps the k-th header to the k-th field    *)
(* and to None when the row is shorter than the header.  The columns are   *)
(* (country, year, population) resp. (Entity, Year, Annual CO2 emissions   *)
(* (per capita)).  Optional numbers are <<>> (None) or <<v>>.  Emissions   *)
(* are floats in the source; here they are held exactly, in tenths.        *)
(***************************************************************************)
EXTENDS Integers, Sequences, FiniteSets, TLC

VARIABLES co2_src, pop_src, countries, pc, exc,
          emissions_dict, bev_dict, available_countries,
          fig1, fig2, fig3, fig4, warnings

vars == <<co2_src, pop_src, countries, pc, exc, emissions_dict, bev_dict,
          available_countries, fig1, fig2, fig3, fig4, warnings>>

----------------------------------------------------------------------------
(* Bounds of the explored inputs *)

MaxRows == 2
MaxListRows == 3
MaxAbsRows == 2
MaxDiffRows == 3

----------------------------------------------------------------------------
(* Python values *)

None == <<>>
Some(v) == <<v>>
IsNone(o) == o = <<>>
EmptyDict == [k \in {} |-> {}]

Range(s) == {s[k] : k \in 1..Len(s)}

SeqsUpTo(S, n) == UNION {[1..m -> S] : m \in 0..n}

\* d[k] = v on a dict
SetItem(d, k, v) == [x \in DOMAIN d \cup {k} |-> IF x = k THEN v ELSE d[x]]

\* dict.get(k)
Get(d, k) == IF k \in DOMAIN d THEN d[k] ELSE None

----------------------------------------------------------------------------
(* Characters and str *)

Whitespace == {" ", "\t"}
Digits == {"0", "1", "2", "3", "4", "5", "6", "7", "8", "9"}

DigitVal(c) ==
    CASE c = "0" -> 0 [] c = "1" -> 1 [] c = "2" -> 2 [] c = "3" -> 3
      [] c = "4" -> 4 [] c = "5" -> 5 [] c = "6" -> 6 [] c = "7" -> 7
      [] c = "8" -> 8 [] c = "9" -> 9

\* code points of the characters that occur in names
Ord(c) ==
    CASE c = " " -> 32 [] c = "A" -> 65 [] c = "M" -> 77 [] c = "P" -> 80
      [] c = "Z" -> 90 [] c = "a" -> 97 [] c = "l" -> 108 [] c = "t" -> 116
      [] c = "y" -> 121

RECURSIVE LStrip(_)
LStrip(s) == IF s # <<>> /\ Head(s) \in Whitespace THEN LStrip(Tail(s)) ELSE s

RECURSIVE RStrip(_)
RStrip(s) ==
    IF s # <<>> /\ s[Len(s)] \in Whitespace
    THEN RStrip(SubSeq(s, 1, Len(s) - 1)) ELSE s

\* str.strip()
strip(s) == RStrip(LStrip(s))

IsDigits(s) == s # <<>> /\ \A k \in 1..Len(s) : s[k] \in Digits

RECURSIVE DigitsValue(_)
DigitsValue(s) ==
    IF s = <<>> THEN 0
    ELSE 10 * DigitsValue(SubSeq(s, 1, Len(s) - 1)) + DigitVal(s[Len(s)])

\* str < str : lexicographic on code points
RECURSIVE StrLess(_, _)
StrLess(a, b) ==
    IF b = <<>> THEN FALSE
    ELSE IF a = <<>> THEN TRUE
    ELSE IF Ord(Head(a)) # Ord(Head(b)) THEN Ord(Head(a)) < Ord(Head(b))
    ELSE StrLess(Tail(a), Tail(b))

----------------------------------------------------------------------------
(* Number parsing.  A result is [exc, val]: exc = "" when a value came back *)

Ok(v) == [exc |-> "", val |-> v]
Raise(e) == [exc |-> e, val |-> None]

\* a cell as DictReader hands it over: a str, or None for a missing field
Str(s) == [isNone |-> FALSE, s |-> s]
NoneCell == [isNone |-> TRUE, s |-> <<>>]

Unsigned(s) == IF s # <<>> /\ Head(s) \in {"+", "-"} THEN Tail(s) ELSE s
Sign(s) == IF s # <<>> /\ Head(s) = "-" THEN -1 ELSE 1

\* int(x): TypeError on None, ValueError unless [ws][sign]digits[ws]
py_int(x) ==
    IF x.isNone THEN Raise("TypeError")
    ELSE LET s == strip(x.s)
         IN  IF IsDigits(Unsigned(s))
             THEN Ok(Sign(s) * DigitsValue(Unsigned(s)))
             ELSE Raise("ValueError")

DotAt(s) == {k \in 1..Len(s) : s[k] = "."}

\* float(s) for [ws][sign](digits[.digits] | .digits)[ws], in tenths; the
\* cells of the model carry at most one fractional digit
py_float(str) ==
    LET s == strip(str)
        u == Unsigned(s)
        dots == DotAt(u)
    IN  IF dots = {}
        THEN IF IsDigits(u) THEN Ok(Sign(s) * 10 * DigitsValue(u))
             ELSE Raise("ValueError")
        ELSE LET d == CHOOSE k \in dots : \A j \in dots : k <= j
                 ip == SubSeq(u, 1, d - 1)
                 fp == SubSeq(u, d + 1, Len(u))
             IN  IF /\ Cardinality(dots) = 1
                    /\ ip # <<>> \/ fp # <<>>
                    /\ ip = <<>> \/ IsDigits(ip)
                    /\ fp = <<>> \/ IsDigits(fp)
                 THEN Ok(Sign(s) * (10 * DigitsValue(ip)
                            + (IF fp = <<>> THEN 0 ELSE DigitVal(fp[1]))))
                 ELSE Raise("ValueError")

\* CO2Charts._parse_int
parse_int(value) ==
    IF value.isNone THEN Raise("AttributeError")
    ELSE LET v == strip(value.s)
         IN  IF v # <<>>
             THEN LET r == py_int(Str(v))
                  IN  IF r.exc = "ValueError" THEN Ok(None) ELSE Ok(Some(r.val))
             ELSE Ok(None)

\* CO2Charts._parse_float
parse_float(value) ==
    IF value.isNone THEN Raise("AttributeError")
    ELSE LET v == strip(value.s)
         IN  IF v # <<>>
             THEN LET r == py_float(v)
                  IN  IF r.exc = "ValueError" THEN Ok(None) ELSE Ok(Some(r.val))
             ELSE Ok(None)

----------------------------------------------------------------------------
(* csv.DictReader rows *)

\* row[<k-th header>]
Cell(row, k) == IF k <= Len(row) THEN Str(row[k]) ELSE NoneCell

----------------------------------------------------------------------------
(* CO2Charts: the readers.  A loop state is [exc, d]: the exception that   *)
(* ended the loop ("" for none) and the dictionary built so far.           *)

\* a faulty variant of StoreYear: the first row of a year keeps its value
StoreYearOnce(series, year, value) ==
    IF year \in DOMAIN series THEN series ELSE SetItem(series, year, value)

\* series[year] = value (lines 36 and 56): a later row replaces the entry
StoreYear(series, year, value) == SetItem(series, year, value)

\* the body of the loop of lese_energy
EnergyRow(st, row) ==
    LET country == row[1]
        year == py_int(Cell(row, 2))
        population == parse_int(Cell(row, 3))
        series == IF country \in DOMAIN st.d THEN st.d[country] ELSE EmptyDict
    IN  IF year.exc = "ValueError" THEN st
        ELSE IF year.exc # "" THEN [st EXCEPT !.exc = year.exc]
        ELSE IF population.exc # "" THEN [st EXCEPT !.exc = population.exc]
        ELSE [st EXCEPT !.d = SetItem(st.d, country,
                                  StoreYear(series, year.val, population.val))]

RECURSIVE EnergyLoop(_, _, _)
EnergyLoop(st, src, k) ==
    IF k > Len(src) \/ st.exc # "" THEN st
    ELSE EnergyLoop(EnergyRow(st, src[k]), src, k + 1)

\* CO2Charts.lese_energy on the rows of energy_path
lese_energy(src) == EnergyLoop([exc |-> "", d |-> EmptyDict], src, 1)

\* the countries argument: a str or a list of str
OneCountry(name) == [kind |-> "str", str |-> name, list |-> <<>>]
CountryList(names) == [kind |-> "list", str |-> <<>>, list |-> names]

\* if isinstance(countries, str): countries = [countries]
AsList(cs) == IF cs.kind = "str" THEN <<cs.str>> ELSE cs.list

\* a faulty variant of InitEmissions: entries are made by the rows only
InitNoEntries(names) == EmptyDict

\* {country: {} for country in countries}
InitEmissions(names) == [c \in Range(names) |-> EmptyDict]

\* the body of the loop of lese_emissionen
EmissionenRow(st, row, names) ==
    LET country == row[1]
        year == py_int(Cell(row, 2))
        emissions == parse_float(Cell(row, 3))
    IN  IF country \notin Range(names) THEN st
        ELSE IF year.exc = "ValueError" THEN st
        ELSE IF year.exc # "" THEN [st EXCEPT !.exc = year.exc]
        ELSE IF emissions.exc # "" THEN [st EXCEPT !.exc = emissions.exc]
        ELSE IF country \notin DOMAIN st.d THEN [st EXCEPT !.exc = "KeyError"]
        ELSE [st EXCEPT !.d[country] =
                            StoreYear(st.d[country], year.val, emissions.val)]

RECURSIVE EmissionenLoop(_, _, _, _)
EmissionenLoop(st, src, k, names) ==
    IF k > Len(src) \/ st.exc # "" THEN st
    ELSE EmissionenLoop(EmissionenRow(st, src[k], names), src, k + 1, names)

\* CO2Charts.lese_emissionen on the rows of co2_path
lese_emissionen(src, cs) ==
    EmissionenLoop([exc |-> "", d |-> InitEmissions(AsList(cs))],
                   src, 1, AsList(cs))

\* sorted() of a set of str
RECURSIVE SortedStrs(_)
SortedStrs(S) ==
    IF S = {} THEN <<>>
    ELSE LET m == CHOOSE x \in S : \A y \in S : x = y \/ StrLess(x, y)
         IN  <<m>> \o SortedStrs(S \ {m})

\* the Entity column in file order, a row at a time
EntityColumn(src) == [k \in 1..Len(src) |-> src[k][1]]

\* a faulty variant of get_available_countries: the column as read, not sorted
ColumnAsRead(src) == EntityColumn(src)

\* CO2Charts.get_available_countries on the rows of co2_path
get_available_countries(src) == SortedStrs(Range(EntityColumn(src)))

----------------------------------------------------------------------------
(* The four charts.  A chart is the sequence of the lines ax.plot drew, in  *)
(* the order of countries_colors; a line is its legend label and its x and *)
(* y data.  Colours are left out.                                          *)

\* sorted() of a set of int
RECURSIVE SortedInts(_)
SortedInts(S) ==
    IF S = {} THEN <<>>
    ELSE LET m == CHOOSE x \in S : \A y \in S : x <= y
         IN  <<m>> \o SortedInts(S \ {m})

Line(label, x, y) == [label |-> label, x |-> x, y |-> y]

\* the loop body of plot_co2_emission_per_capita for a country of co2_data
PerCapitaLine(co2_data, country) ==
    LET years == SortedInts(DOMAIN co2_data[country])
        emissions == [k \in 1..Len(years) |-> co2_data[country][years[k]]]
    IN  Line(country, years, emissions)

RECURSIVE plot_co2_emission_per_capita(_, _)
plot_co2_emission_per_capita(co2_data, cc) ==
    IF cc = <<>> THEN <<>>
    ELSE (IF Head(cc) \in DOMAIN co2_data
          THEN <<PerCapitaLine(co2_data, Head(cc))>> ELSE <<>>)
         \o plot_co2_emission_per_capita(co2_data, Tail(cc))

\* a faulty variant of AbsYears: every year of either table
AbsYearsUnion(e, p) == SortedInts(DOMAIN e \cup DOMAIN p)

\* a faulty variant of AbsYears: only the years where both values are present
AbsYearsPresent(e, p) ==
    SortedInts({y \in DOMAIN e \cap DOMAIN p : e[y] # None /\ p[y] # None})

\* years = sorted(set(co2_data[country].keys()) & set(pop_data[country].keys()))
AbsYears(e, p) == SortedInts(DOMAIN e \cap DOMAIN p)

\* lines 114-117: None when an operand is None, else the product
AbsValue(emissions, population) ==
    IF IsNone(emissions) \/ IsNone(population) THEN None
    ELSE Some(emissions[1] * population[1])

\* the loop body of plot_absolut_co2_emissions for a country of both tables
AbsolutLine(co2_data, pop_data, country) ==
    LET years == AbsYears(co2_data[country], pop_data[country])
        absolute_emissionen ==
            [k \in 1..Len(years) |->
                AbsValue(Get(co2_data[country], years[k]),
                         Get(pop_data[country], years[k]))]
    IN  Line(country, years, absolute_emissionen)

RECURSIVE plot_absolut_co2_emissions(_, _, _)
plot_absolut_co2_emissions(co2_data, pop_data, cc) ==
    IF cc = <<>> THEN <<>>
    ELSE (IF Head(cc) \in DOMAIN co2_data /\ Head(cc) \in DOMAIN pop_data
          THEN <<AbsolutLine(co2_data, pop_data, Head(cc))>> ELSE <<>>)
         \o plot_absolut_co2_emissions(co2_data, pop_data, Tail(cc))

\* x if x is not None else 0
Coerce(o) == IF IsNone(o) THEN 0 ELSE o[1]

\* a faulty variant of Differences: the earlier value minus the later one
DifferencesReversed(v) == [k \in 1..(Len(v) - 1) |-> v[k] - v[k + 1]]

\* [v[i] - v[i - 1] for i in range(1, len(v))]
Differences(v) == [k \in 1..(Len(v) - 1) |-> v[k + 1] - v[k]]

\* s[n:]
From(s, n) == SubSeq(s, n + 1, Len(s))

\* the loop body of plot_co2_emission_changes for a country of co2_data
ChangesLine(co2_data, country) ==
    LET years == SortedInts(DOMAIN co2_data[country])
        emissions == [k \in 1..Len(years) |-> Coerce(co2_data[country][years[k]])]
    IN  Line(country, From(years, 1), Differences(emissions))

RECURSIVE plot_co2_emission_changes(_, _)
plot_co2_emission_changes(co2_data, cc) ==
    IF cc = <<>> THEN [lines |-> <<>>, written |-> <<>>]
    ELSE LET rest == plot_co2_emission_changes(co2_data, Tail(cc))
         IN  IF Head(cc) \in DOMAIN co2_data
             THEN [rest EXCEPT !.lines = <<ChangesLine(co2_data, Head(cc))>> \o @]
             ELSE [rest EXCEPT !.written = <<Head(cc)>> \o @]

\* the loop body of plot_co2_emission_change_change for a country of
\* co2_data: None - x and x - None raise TypeError
ChangeChangeLine(co2_data, country) ==
    LET years == SortedInts(DOMAIN co2_data[country])
        emissions == [k \in 1..Len(years) |-> co2_data[country][years[k]]]
        numbers == [k \in 1..Len(years) |-> emissions[k][1]]
    IN  IF Len(emissions) >= 2 /\ \E k \in 1..Len(emissions) : IsNone(emissions[k])
        THEN [exc |-> "TypeError", line |-> Line(country, <<>>, <<>>)]
        ELSE [exc |-> "",
              line |-> Line(country, From(years, 2),
                            IF Len(emissions) >= 2
                            THEN Differences(Differences(numbers)) ELSE <<>>)]

RECURSIVE ChangeChangeLoop(_, _, _)
ChangeChangeLoop(st, co2_data, cc) ==
    IF cc = <<>> \/ st.exc # "" THEN st
    ELSE IF Head(cc) \notin DOMAIN co2_data
    THEN ChangeChangeLoop(st, co2_data, Tail(cc))
    ELSE LET r == ChangeChangeLine(co2_data, Head(cc))
         IN  ChangeChangeLoop([exc |-> r.exc,
                               lines |-> IF r.exc = "" THEN Append(st.lines, r.line)
                                         ELSE st.lines],
                              co2_data, Tail(cc))

plot_co2_emission_change_change(co2_data, cc) ==
    ChangeChangeLoop([exc |-> "", lines |-> <<>>], co2_data, cc)

----------------------------------------------------------------------------
(* Inputs *)

Poland == <<"P", "l">>
Malaysia == <<"M", "y">>
Atlantis == <<"A", "t">>

\* year cells: plain, padded, another year, not a number
YearCells == {<<"1">>, <<" ", "1">>, <<"2">>, <<"Z">>}
\* numeric cells: an integer, a decimal, blank, not a number
ValueCells == {<<"5">>, <<"8", ".", "5">>, <<>>, <<"Z">>}

\* rows of 1, 2 or 3 fields: a row may be shorter than the header
Rows(entities, years, values) ==
    {<<e>> : e \in entities}
      \cup {<<e, y>> : e \in entities, y \in years}
      \cup {<<e, y, v>> : e \in entities, y \in years, v \in values}

ReadRows == Rows({Poland, Malaysia}, YearCells, ValueCells)

Requests ==
    {OneCountry(Poland), CountryList(<<Atlantis>>),
     CountryList(<<Poland, Atlantis>>), CountryList(<<Malaysia, Poland>>)}

ListNames == {<<"P">>, <<"P", "a">>, <<"M">>, <<"a">>}
ListRows == {<<e, <<"1">>, <<"5">>>> : e \in ListNames}

----------------------------------------------------------------------------
(* The readers, each called once on a file *)

Idle ==
    /\ pc = "idle" /\ exc = ""
    /\ emissions_dict = EmptyDict /\ bev_dict = EmptyDict
    /\ available_countries = <<>>
    /\ fig1 = <<>> /\ fig2 = <<>> /\ fig3 = <<>> /\ fig4 = <<>>
    /\ warnings = <<>>

\* both files hold the same rows: each reader opens only its own
InitRead ==
    /\ co2_src \in SeqsUpTo(ReadRows, MaxRows)
    /\ pop_src = co2_src
    /\ countries = CountryList(<<>>)
    /\ Idle

LeseEnergy ==
    /\ pc = "idle"
    /\ LET r == lese_energy(pop_src)
       IN  /\ exc' = r.exc
           /\ bev_dict' = IF r.exc = "" THEN r.d ELSE bev_dict
    /\ pc' = "lese_energy"
    /\ UNCHANGED <<co2_src, pop_src, countries, emissions_dict,
                   available_countries, fig1, fig2, fig3, fig4, warnings>>

LeseEmissionen ==
    /\ pc = "idle"
    /\ \E cs \in Requests :
         /\ countries' = cs
         /\ LET r == lese_emissionen(co2_src, cs)
            IN  /\ exc' = r.exc
                /\ emissions_dict' = IF r.exc = "" THEN r.d ELSE emissions_dict
    /\ pc' = "lese_emissionen"
    /\ UNCHANGED <<co2_src, pop_src, bev_dict, available_countries,
                   fig1, fig2, fig3, fig4, warnings>>

NextRead == LeseEnergy \/ LeseEmissionen

SpecRead == InitRead /\ [][NextRead]_vars

InitList ==
    /\ co2_src \in SeqsUpTo(ListRows, MaxListRows)
    /\ pop_src = <<>>
    /\ countries = CountryList(<<>>)
    /\ Idle

GetAvailableCountries ==
    /\ pc = "idle"
    /\ available_countries' = get_available_countries(co2_src)
    /\ pc' = "get_available_countries"
    /\ UNCHANGED <<co2_src, pop_src, countries, exc, emissions_dict, bev_dict,
                   fig1, fig2, fig3, fig4, warnings>>

NextList == GetAvailableCountries

SpecList == InitList /\ [][NextList]_vars

----------------------------------------------------------------------------
(* What a file says about (country, year), read off its rows *)

\* the rows of src for country whose year cell is an integer
ValidRows(src, country) ==
    {k \in 1..Len(src) :
        src[k][1] = country /\ py_int(Cell(src[k], 2)).exc = ""}

YearOfRow(src, k) == py_int(Cell(src[k], 2)).val

RowsOfYear(src, country, year) ==
    {k \in ValidRows(src, country) : YearOfRow(src, k) = year}

LastRowOfYear(src, country, year) ==
    CHOOSE k \in RowsOfYear(src, country, year) :
        \A j \in RowsOfYear(src, country, year) : j <= k

Holds(d, country, year) == country \in DOMAIN d /\ year \in DOMAIN d[country]

NamesIn(src) == {src[k][1] : k \in 1..Len(src)}

YearsIn(src) ==
    {YearOfRow(src, k) :
        k \in {j \in 1..Len(src) : py_int(Cell(src[j], 2)).exc = ""}}

YearsOf(d) == UNION {DOMAIN d[c] : c \in DOMAIN d}

Requested == Range(AsList(countries))

EmissionsReturned == pc = "lese_emissionen" /\ exc = ""
EnergyReturned == pc = "lese_energy" /\ exc = ""

\* C1: the table lese_emissionen returns has an entry for every requested
\* country (one name given as a str included), and the entry is the empty
\* series when no row of the file names that country.
C1_EntryForEveryRequested ==
    EmissionsReturned =>
        \A c \in Requested :
            /\ c \in DOMAIN emissions_dict
            /\ c \notin NamesIn(co2_src) => emissions_dict[c] = EmptyDict

\* a returned table, from a file with rows, where one requested country has
\* no row and another has a value
C1_Witness ==
    /\ EmissionsReturned
    /\ \E c \in Requested : c \notin NamesIn(co2_src)
    /\ \E c \in Requested : c \in DOMAIN emissions_dict
                              /\ emissions_dict[c] # EmptyDict

\* C2: after a read, (country, year) has an entry exactly when some row
\* names the country with an integer year (and, for emissions, the country
\* was requested); the entry is the parsed numeric cell of the last such row
\* (None when that cell is blank or not a number); a row whose year is not
\* an integer adds nothing.
C2_LastRowWins ==
    /\ EnergyReturned =>
         \A c \in NamesIn(pop_src) \cup DOMAIN bev_dict :
           \A y \in YearsIn(pop_src) \cup YearsOf(bev_dict) :
             /\ Holds(bev_dict, c, y) <=> RowsOfYear(pop_src, c, y) # {}
             /\ Holds(bev_dict, c, y) =>
                  bev_dict[c][y] =
                    parse_int(Cell(pop_src[LastRowOfYear(pop_src, c, y)], 3)).val
    /\ EmissionsReturned =>
         \A c \in NamesIn(co2_src) \cup DOMAIN emissions_dict :
           \A y \in YearsIn(co2_src) \cup YearsOf(emissions_dict) :
             /\ Holds(emissions_dict, c, y) <=>
                  c \in Requested /\ RowsOfYear(co2_src, c, y) # {}
             /\ Holds(emissions_dict, c, y) =>
                  emissions_dict[c][y] =
                    parse_float(Cell(co2_src[LastRowOfYear(co2_src, c, y)], 3)).val

\* a population table where a later row replaced the value of an earlier
\* row of the same country and year, written with another year cell
C2_Witness ==
    /\ EnergyReturned
    /\ \E c \in DOMAIN bev_dict : \E y \in DOMAIN bev_dict[c] :
         \E j, k \in RowsOfYear(pop_src, c, y) :
            /\ j < k
            /\ pop_src[j][2] # pop_src[k][2]
            /\ parse_int(Cell(pop_src[j], 3)).val # bev_dict[c][y]

\* C3 (as claimed): no cell of a row makes a read raise, a cell missing
\* because the row is shorter than the header included.
C3_NoCellAbortsRead ==
    pc \in {"lese_energy", "lese_emissionen"} => exc = ""

\* C4: get_available_countries returns the distinct Entity names of the
\* file, strictly ascending (so sorted and without duplicates), whatever the
\* order of the rows.
C4_SortedDistinctComplete ==
    pc = "get_available_countries" =>
        /\ Range(available_countries) = NamesIn(co2_src)
        /\ \A j, k \in 1..Len(available_countries) :
              j < k => StrLess(available_countries[j], available_countries[k])

\* a file that repeats a name and lists names out of order
C4_Witness ==
    /\ pc = "get_available_countries"
    /\ Len(available_countries) >= 2
    /\ \E j, k \in 1..Len(co2_src) : j < k /\ co2_src[j][1] = co2_src[k][1]
    /\ \E j, k \in 1..Len(co2_src) : j < k /\ StrLess(co2_src[k][1], co2_src[j][1])

----------------------------------------------------------------------------
(* main(): one render pass for a selection of countries *)

Selections == {<<Poland>>, <<Atlantis, Poland>>, <<Malaysia, Poland>>}

FullRows(entities, years, values) ==
    {<<e, y, v>> : e \in entities, y \in years, v \in values}

AbsCo2Rows == FullRows({Poland, Malaysia}, {<<"1">>, <<"2">>}, {<<"8", ".", "5">>, <<>>})
AbsPopRows == FullRows({Poland}, {<<"1">>, <<"2">>}, {<<"3">>, <<>>})

DiffCo2Rows ==
    FullRows({Poland}, {<<"1">>, <<"2">>, <<"3">>}, {<<"8", ".", "5">>, <<"2">>, <<>>})
DiffPopSources == {<<>>, <<<<Poland, <<"1">>, <<"3">>>>>>}

MainStart ==
    /\ pc = "main" /\ exc = ""
    /\ emissions_dict = EmptyDict /\ bev_dict = EmptyDict
    /\ available_countries = <<>>
    /\ fig1 = <<>> /\ fig2 = <<>> /\ fig3 = <<>> /\ fig4 = <<>>
    /\ warnings = <<>>

InitAbs ==
    /\ co2_src \in SeqsUpTo(AbsCo2Rows, MaxAbsRows)
    /\ pop_src \in SeqsUpTo(AbsPopRows, MaxAbsRows)
    /\ \E sel \in Selections : countries = CountryList(sel)
    /\ MainStart

InitDiff ==
    /\ co2_src \in SeqsUpTo(DiffCo2Rows, MaxDiffRows)
    /\ pop_src \in DiffPopSources
    /\ \E sel \in Selections : countries = CountryList(sel)
    /\ MainStart

countries_colors == AsList(countries)

\* lines 181-183: lese_emissionen(selected_countries), then lese_energy()
Load ==
    /\ pc = "main"
    /\ LET e == lese_emissionen(co2_src, countries)
           p == lese_energy(pop_src)
       IN  IF e.exc # ""
           THEN exc' = e.exc /\ UNCHANGED <<emissions_dict, bev_dict>>
           ELSE IF p.exc # ""
           THEN exc' = p.exc /\ emissions_dict' = e.d /\ UNCHANGED bev_dict
           ELSE exc' = "" /\ emissions_dict' = e.d /\ bev_dict' = p.d
    /\ pc' = "loaded"
    /\ UNCHANGED <<co2_src, pop_src, countries, available_countries,
                   fig1, fig2, fig3, fig4, warnings>>

\* line 189
PlotPerCapita ==
    /\ pc = "loaded" /\ exc = ""
    /\ fig1' = plot_co2_emission_per_capita(emissions_dict, countries_colors)
    /\ pc' = "fig1"
    /\ UNCHANGED <<co2_src, pop_src, countries, exc, emissions_dict, bev_dict,
                   available_countries, fig2, fig3, fig4, warnings>>

\* line 193
PlotAbsolut ==
    /\ pc = "fig1" /\ exc = ""
    /\ fig2' = plot_absolut_co2_emissions(emissions_dict, bev_dict, countries_colors)
    /\ pc' = "fig2"
    /\ UNCHANGED <<co2_src, pop_src, countries, exc, emissions_dict, bev_dict,
                   available_countries, fig1, fig3, fig4, warnings>>

\* line 199
PlotChanges ==
    /\ pc = "fig2" /\ exc = ""
    /\ LET r == plot_co2_emission_changes(emissions_dict, countries_colors)
       IN  fig3' = r.lines /\ warnings' = warnings \o r.written
    /\ pc' = "fig3"
    /\ UNCHANGED <<co2_src, pop_src, countries, exc, emissions_dict, bev_dict,
                   available_countries, fig1, fig2, fig4>>

\* line 203
PlotChangeChange ==
    /\ pc = "fig3" /\ exc = ""
    /\ LET r == plot_co2_emission_change_change(emissions_dict, countries_colors)
       IN  /\ exc' = r.exc
           /\ fig4' = IF r.exc = "" THEN r.lines ELSE fig4
    /\ pc' = "fig4"
    /\ UNCHANGED <<co2_src, pop_src, countries, emissions_dict, bev_dict,
                   available_countries, fig1, fig2, fig3, warnings>>

NextMain == Load \/ PlotPerCapita \/ PlotAbsolut \/ PlotChanges \/ PlotChangeChange

SpecAbs == InitAbs /\ [][NextMain]_vars

SpecDiff == InitDiff /\ [][NextMain]_vars

----------------------------------------------------------------------------
(* The charts against the tables they were drawn from *)

Selected == Range(countries_colors)

LinesOf(fig, country) == {k \in 1..Len(fig) : fig[k].label = country}

Ascending(x) == \A j, k \in 1..Len(x) : j < k => x[j] < x[k]

AbsolutDrawn == pc \in {"fig2", "fig3", "fig4"}
ChangesDrawn == pc \in {"fig3", "fig4"}

InBothTables(c) == c \in DOMAIN emissions_dict /\ c \in DOMAIN bev_dict

\* C5: for a country of both tables the absolute chart has one line; its
\* years are ascending and are keys of both the emissions and the population
\* series (a year of only one table is not emitted at all), and at every
\* emitted year where both values are present the value is their product.
C5_AbsoluteOverCommonYears ==
    AbsolutDrawn =>
        \A c \in Selected : InBothTables(c) =>
            /\ Cardinality(LinesOf(fig2, c)) = 1
            /\ \A k \in LinesOf(fig2, c) :
                 LET l == fig2[k]
                     e == emissions_dict[c]
                     p == bev_dict[c]
                 IN  /\ Len(l.y) = Len(l.x)
                     /\ Ascending(l.x)
                     /\ Range(l.x) \subseteq DOMAIN e \cap DOMAIN p
                     /\ \A n \in 1..Len(l.x) :
                          e[l.x[n]] # None /\ p[l.x[n]] # None =>
                            l.y[n] = Some(e[l.x[n]][1] * p[l.x[n]][1])

\* an absolute line with a product on it, for a country that also has a year
\* in one table only
C5_Witness ==
    /\ pc = "fig2"
    /\ \E c \in Selected :
         /\ InBothTables(c)
         /\ \E k \in LinesOf(fig2, c) :
              /\ \E n \in 1..Len(fig2[k].y) : fig2[k].y[n] # None
              /\ (DOMAIN emissions_dict[c] \cup DOMAIN bev_dict[c])
                    \ Range(fig2[k].x) # {}

\* C6 (as claimed): the absolute chart emits no point for a year whose
\* emissions value is absent while its population value is present.
C6_BlankEmissionsYearDropped ==
    AbsolutDrawn =>
        \A k \in 1..Len(fig2) : \A n \in 1..Len(fig2[k].x) :
            ~ /\ Get(emissions_dict[fig2[k].label], fig2[k].x[n]) = None
              /\ Get(bev_dict[fig2[k].label], fig2[k].x[n]) # None

\* C6 (amended): a year that is a key of both series and whose emissions
\* value is absent is emitted on the absolute line, with the value None.
C6_BlankEmissionsYearEmittedAbsent ==
    AbsolutDrawn =>
        \A c \in Selected : InBothTables(c) =>
            \A y \in DOMAIN emissions_dict[c] \cap DOMAIN bev_dict[c] :
                emissions_dict[c][y] = None =>
                    \E k \in LinesOf(fig2, c) : \E n \in 1..Len(fig2[k].x) :
                        fig2[k].x[n] = y /\ fig2[k].y[n] = None

\* the Poland scenario: one year with both values, one year with a blank
\* emissions cell and a population
C6_Witness ==
    /\ pc = "fig2"
    /\ \E c \in Selected : InBothTables(c) /\
         \E y1, y2 \in DOMAIN emissions_dict[c] \cap DOMAIN bev_dict[c] :
            /\ emissions_dict[c][y1] # None /\ bev_dict[c][y1] # None
            /\ emissions_dict[c][y2] = None /\ bev_dict[c][y2] # None
            /\ \E k \in LinesOf(fig2, c) : Len(fig2[k].x) = 2

\* the emissions value of a year, None taken as 0
V(c, y) == Coerce(emissions_dict[c][y])

\* the year before y in the emissions series of c
Before(c, y) ==
    CHOOSE b \in DOMAIN emissions_dict[c] :
        /\ b < y
        /\ \A z \in DOMAIN emissions_dict[c] : z < y => z <= b

FirstYears(c, n) ==
    {y \in DOMAIN emissions_dict[c] :
        Cardinality({z \in DOMAIN emissions_dict[c] : z < y}) < n}

\* C10: the yearly-change chart has one line per selected country, with one
\* point for every year of the emissions series but the first, ascending,
\* whose value is the emissions of that year minus the emissions of the year
\* before, None counted as 0.
C10_FirstDifference ==
    ChangesDrawn =>
        \A c \in Selected :
            /\ Cardinality(LinesOf(fig3, c)) = 1
            /\ \A k \in LinesOf(fig3, c) :
                 LET l == fig3[k]
                 IN  /\ Len(l.y) = Len(l.x)
                     /\ Ascending(l.x)
                     /\ Range(l.x) = DOMAIN emissions_dict[c] \ FirstYears(c, 1)
                     /\ \A n \in 1..Len(l.x) :
                          l.y[n] = V(c, l.x[n]) - V(c, Before(c, l.x[n]))

\* three years, a value followed by a blank: the change is minus the value
C10_Witness ==
    /\ pc = "fig3"
    /\ \E c \in Selected : \E k \in LinesOf(fig3, c) :
         /\ Len(fig3[k].x) = 2
         /\ \E n \in 1..2 :
              /\ emissions_dict[c][fig3[k].x[n]] = None
              /\ fig3[k].y[n] = -85

\* C7 (as claimed): the second-difference chart is drawn without raising,
\* absent emissions included, and each line is the difference of successive
\* points of the yearly-change line, at the years but the first two.
C7_SecondDifference ==
    pc = "fig4" =>
        /\ exc = ""
        /\ \A c \in Selected :
             /\ Cardinality(LinesOf(fig4, c)) = 1
             /\ \A k \in LinesOf(fig4, c) : \A j \in LinesOf(fig3, c) :
                  /\ Range(fig4[k].x) = DOMAIN emissions_dict[c] \ FirstYears(c, 2)
                  /\ Ascending(fig4[k].x)
                  /\ Len(fig4[k].y) = Len(fig4[k].x)
                  /\ \A n \in 1..Len(fig4[k].y) :
                       fig4[k].y[n] = fig3[j].y[n + 1] - fig3[j].y[n]

AllCharts == <<fig1, fig2, fig3, fig4>>

\* C8 (as claimed): after the pass, a selected country without a row in the
\* emissions file has a warning and no line in any chart, and one without a
\* row in the population file has a warning and no line in the absolute
\* chart.
C8_WarnedAndOmitted ==
    pc = "fig4" /\ exc = "" =>
        \A c \in Selected :
            /\ c \notin NamesIn(co2_src) =>
                 /\ c \in Range(warnings)
                 /\ \A f \in 1..4 : LinesOf(AllCharts[f], c) = {}
            /\ c \notin NamesIn(pop_src) =>
                 /\ c \in Range(warnings)
                 /\ LinesOf(fig2, c) = {}

\* C9 (as claimed): with a selected country that has no row in the emissions
\* file, the pass raises nowhere and every line of that country is empty.
C9_NoRowsEmptyAndNoRaise ==
    pc # "main" =>
        \A c \in Selected : c \notin NamesIn(co2_src) =>
            /\ exc = ""
            /\ \A f \in 1..4 : \A k \in LinesOf(AllCharts[f], c) :
                 AllCharts[f][k].x = <<>> /\ AllCharts[f][k].y = <<>>

====
